---- MODULE Spec2Model ----
(***************************************************************************)
(* Model of the Claude terminal plugin (src/src/main.ts): the floating     *)
(* Session owned by ClaudeTerminalPlugin, the docked Sessions owned by     *)
(* ClaudeTerminalView instances, the host's leaves, and the pending        *)
(* callbacks (animation frames and timers) of the single UI event loop.    *)
(*                                                                         *)
(* Every handler of the source is an operator from a program state (a      *)
(* record with one field per variable) to the program state it leaves, so  *)
(* that handlers calling handlers compose as they do in the source.  The    *)
(* record also carries what one run of a handler did and met: the calls it *)
(* made on terminals and processes (calls), the handles of a Session after *)
(* each assignment to them (trail), the grid each content element fits     *)
(* (box) and whether a spawn succeeds (spawnOk).  An action applies one    *)
(* run of one handler to the current state.                                *)
(***************************************************************************)
EXTENDS Integers, Sequences, FiniteSets, TLC

VARIABLES
  floatingContainer,         \* plugin.floatingContainer # null
  isFloatingVisible,         \* plugin.isFloatingVisible
  floatingTerminal,          \* plugin.floatingTerminal (terminal id or Null)
  floatingFitAddon,          \* plugin.floatingFitAddon (terminal id it is loaded in, or Null)
  floatingPtyProcess,        \* plugin.floatingPtyProcess (process id or Null)
  floatingResizeObserver,    \* plugin.floatingResizeObserver (Null or Handle)
  floatingFitDebounceTimer,  \* plugin.floatingFitDebounceTimer (Null or Handle)
  settings,                  \* the object plugin.settings refers to, by key
  defaults,                  \* the DEFAULT_SETTINGS object, by key
  loaded,                    \* loadSettings has run: plugin.settings is its own object
  persisted,                 \* the persisted record that loadData reads, by key
  drag,                      \* closure variables of setupFloatingResize
  size,                      \* style width and height of the floating container
  win,                       \* window.innerWidth and window.innerHeight
  pos,                       \* style right and bottom of the floating container
  move,                      \* closure variables of setupFloatingDrag
  views,                     \* the ClaudeTerminalView instances, by view id
  leaves,                    \* host: the view held by each right-sidebar leaf
  pendingOpen,               \* host: leaves whose setViewState is awaited
  terms,                     \* the Terminal objects constructed so far
  procs,                     \* the IPty objects spawned so far
  timers,                    \* pending setTimeout callbacks
  rafs,                      \* callbacks requested for the next animation frame
  unloaded                   \* onunload has run

vars == <<floatingContainer, isFloatingVisible, floatingTerminal, floatingFitAddon,
          floatingPtyProcess, floatingResizeObserver, floatingFitDebounceTimer,
          settings, defaults, loaded, persisted, drag, size, win, pos, move,
          views, leaves, pendingOpen, terms, procs, timers, rafs, unloaded>>

----------------------------------------------------------------------------
(* Bounds and program constants *)

MaxViews == 2
MaxTimedViews == 1           \* the views opened under the clock
MaxTerms == 2
MaxLeaves == 1

DebounceMs == 50
AutoLaunchMs == 300
OpenDelayMs == 100
TickMs == OpenDelayMs         \* granularity of the clock

MaxCount == 2                \* counters of the model saturate here
LaunchCommand == "clear && claude"
ClearCommand == "clear"

Null == 0
Handle == 1
Floating == 0                \* the owner id of the plugin's floating Session
ViewIds == 1..MaxViews
Owners == {Floating} \cup ViewIds
LeafIds == 1..MaxLeaves

\* the chunks of data a process or a terminal emits
Chunks == {"a", "b"}

\* the settings record and its values
DEFAULT_SETTINGS ==
  [shellPath |-> "/bin/zsh", autoLaunchClaude |-> TRUE, fontSize |-> 13,
   floatingWidth |-> 500, floatingHeight |-> 350]
SettingsKeys == DOMAIN DEFAULT_SETTINGS
EmptyObject == [k \in {} |-> Null]
ShellPaths == {"/bin/zsh", "/bin/bash"}
FontSizes == {10, 13, 24}

\* floating geometry, in pixels
MinWidth == 300
MinHeight == 200
FallbackWidth == 500
FallbackHeight == 350
DesktopWidth == 1000
DesktopHeight == 800
WindowSizes == {<<250, 200>>, <<375, 250>>, <<DesktopWidth, DesktopHeight>>}
MouseXs == {0, 900}
MouseYs == {0, 700}
\* the mouse positions of a drag of the header
MousePoints == {<<0, 0>>, <<900, 700>>}
\* the records the data file may hold: any subset of the keys, each with a value
\* of its own (no file, or null, holds no key)
PersistedValue ==
  [shellPath |-> "/bin/bash", autoLaunchClaude |-> FALSE, fontSize |-> 24,
   floatingWidth |-> 640, floatingHeight |-> 480]
PersistedRecords == {[k \in K |-> PersistedValue[k]] : K \in SUBSET SettingsKeys}
\* window.innerWidth * 0.8 (exact for the window sizes above)
FourFifths(x) == (x * 4) \div 5
NoDrag == [on |-> FALSE, startX |-> 0, startY |-> 0, startWidth |-> 0, startHeight |-> 0]
\* the right and bottom offsets the stylesheet gives the floating container
StyleOffsets == <<20, 20>>
\* the offsets the model follows a dragged container to
MaxOffset == 1000
NoMove ==
  [isDragging |-> FALSE, startX |-> 0, startY |-> 0, startRight |-> 0, startBottom |-> 0]

InitialGrid == <<80, 24>>
Grids == {InitialGrid, <<100, 30>>}
\* what the content element of each owner fits, as found by a handler when it runs
Boxes == [Owners -> Grids]

Min(a, b) == IF a < b THEN a ELSE b
Max(a, b) == IF a > b THEN a ELSE b

----------------------------------------------------------------------------
(* The program state as a record *)

At(bx, ok) ==
  [floatingContainer |-> floatingContainer, isFloatingVisible |-> isFloatingVisible,
   floatingTerminal |-> floatingTerminal, floatingFitAddon |-> floatingFitAddon,
   floatingPtyProcess |-> floatingPtyProcess,
   floatingResizeObserver |-> floatingResizeObserver,
   floatingFitDebounceTimer |-> floatingFitDebounceTimer,
   settings |-> settings, defaults |-> defaults, loaded |-> loaded,
   persisted |-> persisted,
   drag |-> drag, size |-> size, win |-> win, pos |-> pos, move |-> move,
   views |-> views,
   leaves |-> leaves, pendingOpen |-> pendingOpen, terms |-> terms, procs |-> procs,
   timers |-> timers, rafs |-> rafs, unloaded |-> unloaded,
   calls |-> <<>>, trail |-> <<>>, box |-> bx, spawnOk |-> ok]

Cur == At([o \in Owners |-> InitialGrid], TRUE)

Apply(s) ==
  /\ floatingContainer' = s.floatingContainer
  /\ isFloatingVisible' = s.isFloatingVisible
  /\ floatingTerminal' = s.floatingTerminal
  /\ floatingFitAddon' = s.floatingFitAddon
  /\ floatingPtyProcess' = s.floatingPtyProcess
  /\ floatingResizeObserver' = s.floatingResizeObserver
  /\ floatingFitDebounceTimer' = s.floatingFitDebounceTimer
  /\ settings' = s.settings
  /\ defaults' = s.defaults
  /\ loaded' = s.loaded
  /\ persisted' = s.persisted
  /\ drag' = s.drag
  /\ size' = s.size
  /\ win' = s.win
  /\ pos' = s.pos
  /\ move' = s.move
  /\ views' = s.views
  /\ leaves' = s.leaves
  /\ pendingOpen' = s.pendingOpen
  /\ terms' = s.terms
  /\ procs' = s.procs
  /\ timers' = s.timers
  /\ rafs' = s.rafs
  /\ unloaded' = s.unloaded

FreshView ==
  [status |-> "none", terminal |-> Null, fitAddon |-> Null, ptyProcess |-> Null,
   resizeObserver |-> Null, fitDebounceTimer |-> Null]

TermOf(s, o) == IF o = Floating THEN s.floatingTerminal ELSE s.views[o].terminal
PtyOf(s, o) == IF o = Floating THEN s.floatingPtyProcess ELSE s.views[o].ptyProcess
FitOf(s, o) == IF o = Floating THEN s.floatingFitAddon ELSE s.views[o].fitAddon
ObserverOf(s, o) ==
  IF o = Floating THEN s.floatingResizeObserver ELSE s.views[o].resizeObserver
TimerOf(s, o) ==
  IF o = Floating THEN s.floatingFitDebounceTimer ELSE s.views[o].fitDebounceTimer

\* every logged call is <<name, id of the object called, data>>
Log(s, c) == [s EXCEPT !.calls = Append(@, c)]
Mark(s, o) == [s EXCEPT !.trail = Append(@, <<o, TermOf(s, o), PtyOf(s, o)>>)]

----------------------------------------------------------------------------
(* The external objects: xterm Terminal, FitAddon, node-pty IPty, timers *)

\* bridges counts the onData / onResize listener pairs registered on the terminal;
\* failed records that a spawn for the Session of this terminal has thrown
NewTerminal(o) ==
  [owner |-> o, disposed |-> FALSE, grid |-> InitialGrid, bridges |-> 0, failed |-> FALSE]

\* new Terminal({... cols: 80, rows: 24}); loadAddon; open(container)
ConstructTerminal(s, o) ==
  Log([s EXCEPT !.terms = Append(@, NewTerminal(o))], <<"new Terminal", Len(s.terms) + 1, "">>)

\* IPty.kill(); the age of a process is kept while it lives
Kill(s, p) == Log([s EXCEPT !.procs[p].killed = TRUE, !.procs[p].age = 0], <<"kill", p, "">>)

\* Terminal.dispose(): the terminal's listeners go with it
Dispose(s, t) ==
  Log([s EXCEPT !.terms[t].disposed = TRUE, !.terms[t].bridges = 0], <<"dispose", t, "">>)

\* IPty.write(data)
PtyWrite(s, p, data) == Log(s, <<"pty.write", p, data>>)

\* Terminal.write(data)
TermWrite(s, t, data) == Log(s, <<"term.write", t, data>>)

\* the onResize listener leaving the process at the size it has
ResizeBridge_Ignored(s, o, g) == s

\* the listener registered by terminal.onResize in startPty / startFloatingPty:
\* this.ptyProcess?.resize(cols, rows)
ResizeBridge(s, o, g) ==
  LET p == PtyOf(s, o)
  IN IF p = Null THEN s ELSE Log([s EXCEPT !.procs[p].grid = g], <<"pty.resize", p, "">>)

RECURSIVE FireOnResize(_, _, _, _)
FireOnResize(s, o, g, n) ==
  IF n = 0 THEN s ELSE FireOnResize(ResizeBridge(s, o, g), o, g, n - 1)

\* FitAddon.fit() of terminal t in the content element of owner o: the terminal
\* is resized, and its onResize listeners run, only when the grid changes
Fit(s, o, t) ==
  LET g == s.box[o]
      s1 == Log(s, <<"fit", t, "">>)
  IN IF s.terms[t].grid = g THEN s1
     ELSE FireOnResize([s1 EXCEPT !.terms[t].grid = g], s.terms[t].owner, g,
                       s.terms[t].bridges)

ScrollToBottom(s, t) == Log(s, <<"scrollToBottom", t, "">>)
Focus(s, t) == Log(s, <<"focus", t, "">>)

SetTimeout(s, tm) == [s EXCEPT !.timers = @ \cup {tm}]

\* clearTimeout of the debounce handle of owner o.  The handle field always holds
\* the timer created last for o and every earlier one was cleared when that one
\* was created, so the handle names the only debounce timer of o that can be pending.
ClearDebounce(s, o) ==
  [s EXCEPT !.timers = {tm \in @ : ~(tm.kind = "debounce" /\ tm.owner = o)}]

RequestAnimationFrame(s, o, stage, t) ==
  [s EXCEPT !.rafs = Append(@, [owner |-> o, stage |-> stage, term |-> t])]

----------------------------------------------------------------------------
(* Settings Store *)

\* this.settings.k = v; until loadSettings has run this.settings is the
\* DEFAULT_SETTINGS object itself
WriteSetting(s, k, v) ==
  [s EXCEPT !.settings[k] = v,
            !.defaults = IF s.loaded THEN @ ELSE [@ EXCEPT ![k] = v]]

\* Object.assign(target, source): the own properties of source are copied over
\* target; a null source has none
ObjectAssign(target, source) ==
  [k \in DOMAIN target \cup DOMAIN source |->
     IF k \in DOMAIN source THEN source[k] ELSE target[k]]

\* loadSettings merging into the DEFAULT_SETTINGS object instead of a new one
loadSettings_IntoDefaults(s) ==
  LET merged == ObjectAssign(s.defaults, s.persisted)
  IN [s EXCEPT !.settings = merged, !.defaults = merged, !.loaded = FALSE]

loadSettings(s) ==
  [s EXCEPT !.settings = ObjectAssign(ObjectAssign(EmptyObject, s.defaults), s.persisted),
            !.loaded = TRUE]

saveSettings(s) == [s EXCEPT !.persisted = s.settings]

\* the onChange handlers of the settings tab
onChangeShellPath(s, value) == saveSettings(WriteSetting(s, "shellPath", value))
onChangeAutoLaunch(s, value) == saveSettings(WriteSetting(s, "autoLaunchClaude", value))
onChangeFontSize(s, value) == saveSettings(WriteSetting(s, "fontSize", value))

----------------------------------------------------------------------------
(* ClaudeTerminalPlugin: the floating Session *)

startFloatingPty(s) ==
  IF s.floatingTerminal = Null THEN s
  ELSE IF ~s.spawnOk
    THEN TermWrite(Log([s EXCEPT !.terms[s.floatingTerminal].failed = TRUE],
                       <<"spawn failed", Floating, "">>),
                   s.floatingTerminal, "error line")
    ELSE
      LET p  == Len(s.procs) + 1
          t  == s.floatingTerminal
          s1 == Mark(Log([s EXCEPT
                            !.procs = Append(@, [owner |-> Floating, term |-> t,
                                                 killed |-> FALSE, age |-> 0,
                                                 launches |-> 0,
                                                 grid |-> s.terms[t].grid]),
                            !.floatingPtyProcess = p],
                          <<"spawn", p, "">>), Floating)
          s2 == [s1 EXCEPT !.terms[t].bridges = @ + 1]
      IN IF s2.settings.autoLaunchClaude
           THEN SetTimeout(s2, [kind |-> "launch", owner |-> Floating,
                                remaining |-> AutoLaunchMs, pid |-> p])
           ELSE s2

\* destroyFloatingTerminal disposing the surface before it kills the process
destroyFloatingTerminal_DisposeFirst(s) ==
  LET s1 == [s EXCEPT !.floatingResizeObserver = Null]
      s2 == IF s1.floatingTerminal # Null
              THEN Mark([Dispose(s1, s1.floatingTerminal) EXCEPT !.floatingTerminal = Null],
                        Floating)
              ELSE s1
      s3 == IF s2.floatingPtyProcess # Null
              THEN Mark([Kill(s2, s2.floatingPtyProcess) EXCEPT !.floatingPtyProcess = Null],
                        Floating)
              ELSE s2
  IN [s3 EXCEPT !.floatingFitAddon = Null]

\* destroyFloatingTerminal killing the process but keeping its handle
destroyFloatingTerminal_KeepsHandle(s) ==
  LET s1 == [s EXCEPT !.floatingResizeObserver = Null]
      s2 == IF s1.floatingPtyProcess # Null THEN Kill(s1, s1.floatingPtyProcess) ELSE s1
      s3 == IF s2.floatingTerminal # Null
              THEN Mark([Dispose(s2, s2.floatingTerminal) EXCEPT !.floatingTerminal = Null],
                        Floating)
              ELSE s2
  IN [s3 EXCEPT !.floatingFitAddon = Null]

\* destroyFloatingTerminal disposing the surface but keeping its handles
destroyFloatingTerminal_KeepsSurface(s) ==
  LET s1 == [s EXCEPT !.floatingResizeObserver = Null]
      s2 == IF s1.floatingPtyProcess # Null
              THEN Mark([Kill(s1, s1.floatingPtyProcess) EXCEPT !.floatingPtyProcess = Null],
                        Floating)
              ELSE s1
  IN IF s2.floatingTerminal # Null THEN Dispose(s2, s2.floatingTerminal) ELSE s2

destroyFloatingTerminal(s) ==
  LET s1 == [s EXCEPT !.floatingResizeObserver = Null]
      s2 == IF s1.floatingPtyProcess # Null
              THEN Mark([Kill(s1, s1.floatingPtyProcess) EXCEPT !.floatingPtyProcess = Null],
                        Floating)
              ELSE s1
      s3 == IF s2.floatingTerminal # Null
              THEN Mark([Dispose(s2, s2.floatingTerminal) EXCEPT !.floatingTerminal = Null],
                        Floating)
              ELSE s2
  IN [s3 EXCEPT !.floatingFitAddon = Null]

initializeFloatingTerminal(s) ==
  IF ~s.floatingContainer THEN s
  ELSE
    LET t  == Len(s.terms) + 1
        s1 == Mark([ConstructTerminal(s, Floating) EXCEPT !.floatingTerminal = t], Floating)
        s2 == [s1 EXCEPT !.floatingFitAddon = t]
        s3 == RequestAnimationFrame(s2, Floating, 1, t)
    IN [s3 EXCEPT !.floatingResizeObserver = Handle]

\* the inner requestAnimationFrame callback of initializeFloatingTerminal
floatingFrameCallback(s) ==
  IF s.floatingFitAddon # Null /\ s.floatingTerminal # Null
    THEN LET s1 == startFloatingPty(Fit(s, Floating, s.floatingTerminal))
         IN Focus(s1, s1.floatingTerminal)
    ELSE s

\* showFloatingTerminal starting a process when the Session it finds has none
showFloatingTerminal_RetriesSpawn(s) ==
  IF ~s.floatingContainer THEN s
  ELSE
    LET s1 == [s EXCEPT !.isFloatingVisible = TRUE]
    IN IF s1.floatingTerminal = Null
         THEN initializeFloatingTerminal(s1)
         ELSE LET s2 == IF s1.floatingFitAddon # Null
                          THEN Fit(s1, Floating, s1.floatingFitAddon) ELSE s1
                  s3 == IF s2.floatingPtyProcess = Null THEN startFloatingPty(s2) ELSE s2
              IN Focus(ScrollToBottom(s3, s3.floatingTerminal), s3.floatingTerminal)

\* showFloatingTerminal marking the surface visible before it looks for the container
showFloatingTerminal_MarksFirst(s) ==
  LET s1 == [s EXCEPT !.isFloatingVisible = TRUE]
  IN IF ~s1.floatingContainer THEN s1
     ELSE IF s1.floatingTerminal = Null
            THEN initializeFloatingTerminal(s1)
            ELSE LET s2 == IF s1.floatingFitAddon # Null
                             THEN Fit(s1, Floating, s1.floatingFitAddon) ELSE s1
                 IN Focus(ScrollToBottom(s2, s2.floatingTerminal), s2.floatingTerminal)

showFloatingTerminal(s) ==
  IF ~s.floatingContainer THEN s
  ELSE
    LET s1 == [s EXCEPT !.isFloatingVisible = TRUE]
    IN IF s1.floatingTerminal = Null
         THEN initializeFloatingTerminal(s1)
         ELSE LET s2 == IF s1.floatingFitAddon # Null
                          THEN Fit(s1, Floating, s1.floatingFitAddon) ELSE s1
              IN Focus(ScrollToBottom(s2, s2.floatingTerminal), s2.floatingTerminal)

\* hideFloatingTerminal killing the process as the close button does
hideFloatingTerminal_Kills(s) ==
  IF ~s.floatingContainer THEN s
  ELSE LET s1 == [s EXCEPT !.isFloatingVisible = FALSE]
       IN IF s1.floatingPtyProcess # Null
            THEN [Kill(s1, s1.floatingPtyProcess) EXCEPT !.floatingPtyProcess = Null]
            ELSE s1

hideFloatingTerminal(s) ==
  IF ~s.floatingContainer THEN s
  ELSE Log([s EXCEPT !.isFloatingVisible = FALSE], <<"hide", Floating, "">>)

\* toggleFloatingTerminal closing the visible surface as the close button does
toggleFloatingTerminal_ClosesWhenVisible(s) ==
  IF s.isFloatingVisible THEN destroyFloatingTerminal(hideFloatingTerminal(s)) ELSE showFloatingTerminal(s)

toggleFloatingTerminal(s) ==
  IF s.isFloatingVisible THEN hideFloatingTerminal(s) ELSE showFloatingTerminal(s)

\* the click listener of the close button
closeButton(s) == destroyFloatingTerminal(hideFloatingTerminal(s))

\* the click listener of the clear button
clearButton(s) ==
  IF s.floatingPtyProcess = Null THEN s
  ELSE PtyWrite(s, s.floatingPtyProcess, ClearCommand)

\* the mousedown listener of the header; onButton: the target is in a button
dragMouseDown(s, x, y, onButton) ==
  IF onButton THEN s
  ELSE [s EXCEPT !.move = [isDragging |-> TRUE, startX |-> x, startY |-> y,
                           startRight |-> s.pos[1], startBottom |-> s.pos[2]]]

\* onMouseMove of setupFloatingDrag storing the position in the settings
dragMouseMove_Persists(s, x, y) ==
  IF ~s.move.isDragging \/ ~s.floatingContainer THEN s
  ELSE LET deltaX == s.move.startX - x
           deltaY == s.move.startY - y
           s1 == [s EXCEPT !.pos = <<Max(0, s.move.startRight + deltaX),
                                     Max(0, s.move.startBottom + deltaY)>>]
       IN saveSettings([s1 EXCEPT !.settings =
                          [k \in DOMAIN @ \cup {"floatingRight"} |->
                             IF k = "floatingRight" THEN s1.pos[1] ELSE @[k]]])

\* onMouseMove of setupFloatingDrag
dragMouseMove(s, x, y) ==
  IF ~s.move.isDragging \/ ~s.floatingContainer THEN s
  ELSE LET deltaX == s.move.startX - x
           deltaY == s.move.startY - y
       IN [s EXCEPT !.pos = <<Max(0, s.move.startRight + deltaX),
                              Max(0, s.move.startBottom + deltaY)>>]

\* onMouseUp of setupFloatingDrag.  The start values are kept by the closure but
\* the next mousedown writes them before anything reads them: the model forgets them.
dragMouseUp(s) == [s EXCEPT !.move = NoMove]

\* the mousedown listener of the resize handle
resizeMouseDown(s, x, y) ==
  LET offsetWidth == IF s.floatingContainer /\ s.isFloatingVisible THEN s.size[1] ELSE 0
      offsetHeight == IF s.floatingContainer /\ s.isFloatingVisible THEN s.size[2] ELSE 0
  IN [s EXCEPT !.drag = [on |-> TRUE, startX |-> x, startY |-> y,
                         startWidth |-> IF offsetWidth = 0 THEN FallbackWidth
                                        ELSE offsetWidth,
                         startHeight |-> IF offsetHeight = 0 THEN FallbackHeight
                                         ELSE offsetHeight]]

\* onMouseMove clamping to the upper bound first, so that the lower bound wins
resizeMouseMove_MinimumWins(s, x, y) ==
  IF ~s.floatingContainer THEN s
  ELSE
    LET deltaX == s.drag.startX - x
        deltaY == y - s.drag.startY
        newWidth == Max(Min(s.drag.startWidth + deltaX, FourFifths(s.win[1])), MinWidth)
        newHeight == Max(Min(s.drag.startHeight + deltaY, FourFifths(s.win[2])), MinHeight)
        s1 == [s EXCEPT !.size = <<newWidth, newHeight>>]
        s2 == WriteSetting(WriteSetting(s1, "floatingWidth", newWidth),
                           "floatingHeight", newHeight)
    IN IF s2.floatingFitAddon # Null /\ s2.floatingTerminal # Null
         THEN ScrollToBottom(Fit(s2, Floating, s2.floatingFitAddon), s2.floatingTerminal)
         ELSE s2

\* onMouseMove of setupFloatingResize
resizeMouseMove(s, x, y) ==
  IF ~s.floatingContainer THEN s
  ELSE
    LET deltaX == s.drag.startX - x
        deltaY == y - s.drag.startY
        newWidth == Min(Max(s.drag.startWidth + deltaX, MinWidth), FourFifths(s.win[1]))
        newHeight == Min(Max(s.drag.startHeight + deltaY, MinHeight), FourFifths(s.win[2]))
        s1 == [s EXCEPT !.size = <<newWidth, newHeight>>]
        s2 == WriteSetting(WriteSetting(s1, "floatingWidth", newWidth),
                           "floatingHeight", newHeight)
    IN IF s2.floatingFitAddon # Null /\ s2.floatingTerminal # Null
         THEN ScrollToBottom(Fit(s2, Floating, s2.floatingFitAddon), s2.floatingTerminal)
         ELSE s2

\* onMouseUp of setupFloatingResize
resizeMouseUp(s) == saveSettings([s EXCEPT !.drag.on = FALSE])

createFloatingContainer(s) ==
  [s EXCEPT !.floatingContainer = TRUE,
            !.size = <<s.settings.floatingWidth, s.settings.floatingHeight>>]

----------------------------------------------------------------------------
(* ClaudeTerminalView: a docked Session *)

startPty(s, v) ==
  IF s.views[v].terminal = Null THEN s
  ELSE IF ~s.spawnOk
    THEN TermWrite(TermWrite(Log([s EXCEPT !.terms[s.views[v].terminal].failed = TRUE],
                                 <<"spawn failed", v, "">>),
                             s.views[v].terminal, "error line"),
                   s.views[v].terminal, "raw error")
    ELSE
      LET p  == Len(s.procs) + 1
          t  == s.views[v].terminal
          s1 == Mark(Log([s EXCEPT
                            !.procs = Append(@, [owner |-> v, term |-> t,
                                                 killed |-> FALSE, age |-> 0,
                                                 launches |-> 0,
                                                 grid |-> s.terms[t].grid]),
                            !.views[v].ptyProcess = p],
                          <<"spawn", p, "">>), v)
          s2 == [s1 EXCEPT !.terms[t].bridges = @ + 1]
      IN IF s2.settings.autoLaunchClaude
           THEN SetTimeout(s2, [kind |-> "launch", owner |-> v,
                                remaining |-> AutoLaunchMs, pid |-> p])
           ELSE s2

destroyTerminal(s, v) ==
  LET s1 == [s EXCEPT !.views[v].resizeObserver = Null]
      s2 == IF s1.views[v].ptyProcess # Null
              THEN Mark([Kill(s1, s1.views[v].ptyProcess) EXCEPT !.views[v].ptyProcess = Null], v)
              ELSE s1
      s3 == IF s2.views[v].terminal # Null
              THEN Mark([Dispose(s2, s2.views[v].terminal) EXCEPT !.views[v].terminal = Null], v)
              ELSE s2
  IN [s3 EXCEPT !.views[v].fitAddon = Null]

initializeTerminal(s, v) ==
  LET t  == Len(s.terms) + 1
      s1 == Mark([ConstructTerminal(s, v) EXCEPT !.views[v].terminal = t], v)
      s2 == [s1 EXCEPT !.views[v].fitAddon = t]
      s3 == RequestAnimationFrame(s2, v, 1, t)
  IN [s3 EXCEPT !.views[v].resizeObserver = Handle]

\* the inner callback spawning the process before the initial fit
viewFrameCallback_SpawnsBeforeFit(s, v) ==
  IF s.views[v].fitAddon # Null /\ s.views[v].terminal # Null
    THEN LET s1 == startPty(s, v)
             s2 == Fit(s1, v, s1.views[v].terminal)
         IN Focus(s2, s2.views[v].terminal)
    ELSE s

\* the inner requestAnimationFrame callback of initializeTerminal
viewFrameCallback(s, v) ==
  IF s.views[v].fitAddon # Null /\ s.views[v].terminal # Null
    THEN LET s1 == startPty(Fit(s, v, s.views[v].terminal), v)
         IN Focus(s1, s1.views[v].terminal)
    ELSE s

onOpen(s, v) ==
  SetTimeout([s EXCEPT !.views[v].status = "open"],
             [kind |-> "open", owner |-> v, remaining |-> OpenDelayMs, pid |-> Null])

onClose(s, v) == destroyTerminal(s, v)

\* sendClear clearing the surface itself when there is no process to write to
sendClear_ClearsSurface(s, v) ==
  IF s.views[v].ptyProcess = Null
    THEN IF s.views[v].terminal = Null THEN s
         ELSE Log(s, <<"term.clear", s.views[v].terminal, "">>)
    ELSE PtyWrite(s, s.views[v].ptyProcess, ClearCommand)

sendClear(s, v) ==
  IF s.views[v].ptyProcess = Null THEN s
  ELSE PtyWrite(s, s.views[v].ptyProcess, ClearCommand)

----------------------------------------------------------------------------
(* Callbacks shared in shape by both Session kinds *)

\* the ResizeObserver callback without its clearTimeout
observerCallback_NoClear(s, o) ==
  LET s2 == SetTimeout(s, [kind |-> "debounce", owner |-> o,
                           remaining |-> DebounceMs, pid |-> Null])
  IN IF o = Floating THEN [s2 EXCEPT !.floatingFitDebounceTimer = Handle]
     ELSE [s2 EXCEPT !.views[o].fitDebounceTimer = Handle]

\* the ResizeObserver callback
observerCallback(s, o) ==
  LET s1 == IF TimerOf(s, o) # Null THEN ClearDebounce(s, o) ELSE s
      s2 == SetTimeout(s1, [kind |-> "debounce", owner |-> o,
                            remaining |-> DebounceMs, pid |-> Null])
  IN IF o = Floating THEN [s2 EXCEPT !.floatingFitDebounceTimer = Handle]
     ELSE [s2 EXCEPT !.views[o].fitDebounceTimer = Handle]

\* the debounce callback fitting without looking at the process handle
debounceCallback_NoProcessCheck(s, o) ==
  IF FitOf(s, o) # Null /\ TermOf(s, o) # Null
    THEN ScrollToBottom(Fit(s, o, FitOf(s, o)), TermOf(s, o))
    ELSE s

\* the 50 ms timer callback set by the ResizeObserver callback
debounceCallback(s, o) ==
  IF FitOf(s, o) # Null /\ TermOf(s, o) # Null /\ PtyOf(s, o) # Null
    THEN ScrollToBottom(Fit(s, o, FitOf(s, o)), TermOf(s, o))
    ELSE s

\* the 300 ms timer callback set by startPty / startFloatingPty
launchCallback(s, o) ==
  LET p == PtyOf(s, o)
  IN IF p = Null THEN s
     ELSE PtyWrite([s EXCEPT !.procs[p].launches = Min(@ + 1, MaxCount)], p, LaunchCommand)

\* the listener registered by ptyProcess.onData in startPty / startFloatingPty, run
\* for a chunk that process p emits: this.terminal?.write(data)
ptyDataListener(s, p, data) ==
  LET t == TermOf(s, s.procs[p].owner)
  IN IF t = Null THEN s ELSE TermWrite(s, t, data)

\* the listener registered by terminal.onData in startPty / startFloatingPty:
\* this.ptyProcess?.write(data)
termDataListener(s, o, data) ==
  LET p == PtyOf(s, o)
  IN IF p = Null THEN s ELSE PtyWrite(s, p, data)

\* terminal t emits input data: its n onData listeners run in registration order
RECURSIVE FireOnData(_, _, _, _)
FireOnData(s, o, data, n) ==
  IF n = 0 THEN s ELSE FireOnData(termDataListener(s, o, data), o, data, n - 1)

timerCallback(s, tm) ==
  CASE tm.kind = "open" -> initializeTerminal(s, tm.owner)
    [] tm.kind = "debounce" -> debounceCallback(s, tm.owner)
    [] tm.kind = "launch" -> launchCallback(s, tm.owner)

rafCallback(s, r) ==
  IF r.stage = 1 THEN RequestAnimationFrame(s, r.owner, 2, r.term)
  ELSE IF r.owner = Floating THEN floatingFrameCallback(s)
  ELSE viewFrameCallback(s, r.owner)

\* one animation frame: the callbacks requested before it run in request order;
\* a callback requested during the frame waits for the next one
RECURSIVE RunFrame(_, _)
RunFrame(s, q) == IF q = <<>> THEN s ELSE RunFrame(rafCallback(s, Head(q)), Tail(q))

----------------------------------------------------------------------------
(* The host (Obsidian workspace) and the Mode Coordinator *)

OpenLeaves(s) == {l \in LeafIds : s.leaves[l] # Null}

\* leaf.detach(): the host closes the leaf's view, which runs onClose
detachLeaf(s, l) ==
  LET v == s.leaves[l]
  IN [onClose(s, v) EXCEPT !.views[v].status = "closed", !.leaves[l] = Null]

RECURSIVE detachAll(_, _)
detachAll(s, ls) ==
  IF ls = {} THEN s
  ELSE LET l == CHOOSE x \in ls : \A y \in ls : x <= y
       IN detachAll(detachLeaf(s, l), ls \ {l})

\* app.workspace.detachLeavesOfType(VIEW_TYPE_CLAUDE_TERMINAL)
detachLeavesOfType(s) == detachAll(s, OpenLeaves(s))

NumViews(s) == Cardinality({v \in ViewIds : s.views[v].status # "none"})

\* the host completing rightLeaf.setViewState({type: VIEW_TYPE_CLAUDE_TERMINAL}):
\* a leaf already holding a terminal view keeps it (reuse) or has it closed and
\* replaced by a new view from the registered factory, whose onOpen runs
setViewState(s, l, reuse) ==
  IF s.leaves[l] # Null /\ reuse THEN s
  ELSE LET s1 == IF s.leaves[l] # Null THEN detachLeaf(s, l) ELSE s
           nv == NumViews(s1) + 1
       IN onOpen([s1 EXCEPT !.leaves[l] = nv], nv)

\* openInSidebar hiding the floating surface without destroying its Session
openInSidebar_HideOnly(s, l) ==
  LET s1 == IF s.isFloatingVisible THEN hideFloatingTerminal(s) ELSE s
  IN IF l # Null
       THEN Log([s1 EXCEPT !.pendingOpen = Append(@, l)], <<"setViewState", l, "">>)
       ELSE s1

\* openInSidebar destroying the floating Session whether or not it is visible
openInSidebar_AlwaysDestroys(s, l) ==
  LET s1 == destroyFloatingTerminal(hideFloatingTerminal(s))
  IN IF l # Null
       THEN Log([s1 EXCEPT !.pendingOpen = Append(@, l)], <<"setViewState", l, "">>)
       ELSE s1

\* openInSidebar up to its await; l is what getRightLeaf(false) returned
openInSidebar(s, l) ==
  LET s1 == IF s.isFloatingVisible
              THEN destroyFloatingTerminal(hideFloatingTerminal(s))
              ELSE s
  IN IF l # Null
       THEN Log([s1 EXCEPT !.pendingOpen = Append(@, l)], <<"setViewState", l, "">>)
       ELSE s1

undockToFloating(s) == showFloatingTerminal(detachLeavesOfType(s))

onunload(s) ==
  [detachLeavesOfType(destroyFloatingTerminal(s)) EXCEPT !.unloaded = TRUE]

----------------------------------------------------------------------------
(* Initial state and actions *)

Init ==
  /\ floatingContainer = FALSE
  /\ isFloatingVisible = FALSE
  /\ floatingTerminal = Null
  /\ floatingFitAddon = Null
  /\ floatingPtyProcess = Null
  /\ floatingResizeObserver = Null
  /\ floatingFitDebounceTimer = Null
  /\ settings \in {[DEFAULT_SETTINGS EXCEPT !.autoLaunchClaude = b] : b \in BOOLEAN}
  /\ defaults = DEFAULT_SETTINGS
  /\ loaded = TRUE
  /\ persisted = settings
  /\ drag = NoDrag
  /\ size = <<0, 0>>
  /\ win = <<DesktopWidth, DesktopHeight>>
  /\ pos = StyleOffsets
  /\ move = NoMove
  /\ views = [v \in ViewIds |-> FreshView]
  /\ leaves = [l \in LeafIds |-> Null]
  /\ pendingOpen = <<>>
  /\ terms = <<>>
  /\ procs = <<>>
  /\ timers = {}
  /\ rafs = <<>>
  /\ unloaded = FALSE

\* the boxes in which only the content elements of the owners in os vary
BoxesFor(os) == {bx \in Boxes : \A o \in Owners \ os : bx[o] = InitialGrid}

\* a handler's result becomes the next state; object ids stay within the bounds
Step(s) == Len(s.terms) <= MaxTerms /\ Apply(s)

(* For each action, the runs of its handler that the current state allows *)

\* onLayoutReady callback
LayoutReadyRuns ==
  IF ~unloaded /\ ~floatingContainer THEN {createFloatingContainer(Cur)} ELSE {}

\* ribbon icon and toggle command
ToggleRuns ==
  IF ~unloaded
    THEN {toggleFloatingTerminal(At(bx, TRUE)) : bx \in BoxesFor({Floating})}
    ELSE {}

\* minimize button
HideRuns == IF ~unloaded /\ floatingContainer THEN {hideFloatingTerminal(Cur)} ELSE {}

\* close button
CloseRuns == IF ~unloaded /\ floatingContainer THEN {closeButton(Cur)} ELSE {}

\* dock button and sidebar command
OpenInSidebarRuns ==
  IF ~unloaded /\ NumViews(Cur) + Len(pendingOpen) < MaxViews
    THEN {openInSidebar(Cur, l) : l \in LeafIds \cup {Null}}
    ELSE {}

\* the awaited setViewState of the oldest suspended openInSidebar completes
SetViewStateRuns ==
  IF ~unloaded /\ pendingOpen # <<>>
    THEN {setViewState([Cur EXCEPT !.pendingOpen = Tail(@)], Head(pendingOpen), reuse) :
            reuse \in {r \in BOOLEAN : r => leaves[Head(pendingOpen)] # Null}}
    ELSE {}

\* "Undock to floating window" in the pane menu of an open view; the user reaches
\* the menu once the layout is ready, when the onLayoutReady callback has run
UndockRuns ==
  IF ~unloaded /\ floatingContainer /\ OpenLeaves(Cur) # {}
    THEN {undockToFloating(At(bx, TRUE)) : bx \in BoxesFor({Floating})}
    ELSE {}

\* Clear of owner o: the clear button of the visible floating surface, or "Clear
\* terminal" in the pane menu of a view open in a leaf
ClearRuns(o) ==
  IF o = Floating
    THEN IF ~unloaded /\ floatingContainer /\ isFloatingVisible
           THEN {clearButton(Cur)} ELSE {}
    ELSE IF ~unloaded /\ \E l \in LeafIds : leaves[l] = o
           THEN {sendClear(Cur, o)} ELSE {}

\* the user closes the sidebar tab: the host detaches the leaf
CloseLeafRuns == IF ~unloaded THEN {detachLeaf(Cur, l) : l \in OpenLeaves(Cur)} ELSE {}

UnloadRuns == IF ~unloaded THEN {onunload(Cur)} ELSE {}

\* settings tab
SetAutoLaunchRuns ==
  IF ~unloaded /\ loaded
    THEN {onChangeAutoLaunch(Cur, ~settings.autoLaunchClaude)}
    ELSE {}

\* onload's loadSettings
LoadSettingsRuns == IF ~loaded THEN {loadSettings(Cur)} ELSE {}

\* settings tab: shell path text and font size slider
ShellPathRuns ==
  IF ~unloaded /\ loaded THEN {onChangeShellPath(Cur, v) : v \in ShellPaths} ELSE {}
FontSizeRuns ==
  IF ~unloaded /\ loaded THEN {onChangeFontSize(Cur, v) : v \in FontSizes} ELSE {}

\* the resize handle of the visible floating surface is pressed, dragged, released
MouseDownRuns ==
  IF ~unloaded /\ floatingContainer /\ isFloatingVisible /\ ~move.isDragging
    THEN {resizeMouseDown(Cur, x, y) : x \in MouseXs, y \in MouseYs}
    ELSE {}
MouseMoveRuns ==
  IF drag.on
    THEN {resizeMouseMove(At(bx, TRUE), x, y) :
            x \in MouseXs, y \in MouseYs, bx \in BoxesFor({Floating})}
    ELSE {}
MouseUpRuns == IF drag.on THEN {resizeMouseUp(Cur)} ELSE {}

\* the header of the visible floating surface is pressed, dragged, released
\* (one pointer: no press on the header during a resize drag)
DragDownRuns ==
  IF ~unloaded /\ floatingContainer /\ isFloatingVisible /\ ~drag.on
    THEN {dragMouseDown(Cur, m[1], m[2], b) : m \in MousePoints, b \in BOOLEAN}
    ELSE {}
DragMoveRuns ==
  IF move.isDragging
    THEN {s \in {dragMouseMove(Cur, m[1], m[2]) : m \in MousePoints} :
            s.pos[1] <= MaxOffset /\ s.pos[2] <= MaxOffset}
    ELSE {}
DragUpRuns == IF move.isDragging THEN {dragMouseUp(Cur)} ELSE {}

\* the ResizeObserver of owner o is notified: its content element changed size
\* (observe() itself also notifies once)
ResizeRuns(o) == IF ObserverOf(Cur, o) # Null THEN {observerCallback(Cur, o)} ELSE {}

\* one animation frame
FrameRuns ==
  IF rafs # <<>>
    THEN {RunFrame([At(bx, ok) EXCEPT !.rafs = <<>>], rafs) :
            bx \in BoxesFor({rafs[i].owner : i \in {j \in 1..Len(rafs) : rafs[j].stage = 2}}),
            ok \in BOOLEAN}
    ELSE {}

\* the callback of the pending timer tm runs
TimerRuns(tm) ==
  {timerCallback([At(bx, TRUE) EXCEPT !.timers = @ \ {tm}], tm) :
     bx \in BoxesFor(IF tm.kind = "debounce" THEN {tm.owner} ELSE {})}

\* TickMs pass: timers come closer to due, live processes age
TickRun ==
  [Cur EXCEPT
     !.timers = {[tm EXCEPT !.remaining = Max(0, @ - TickMs)] : tm \in @},
     !.procs = [p \in 1..Len(@) |->
                  IF @[p].killed THEN @[p]
                  ELSE [@[p] EXCEPT !.age = Min(AutoLaunchMs, @ + TickMs)]]]

\* the live process p emits the chunk c
OutputRuns(p, c) == IF ~procs[p].killed THEN {ptyDataListener(Cur, p, c)} ELSE {}

\* the terminal t emits the chunk c (keystrokes, paste, replies of the emulator)
InputRuns(t, c) ==
  IF ~terms[t].disposed THEN {FireOnData(Cur, terms[t].owner, c, terms[t].bridges)} ELSE {}

LayoutReady == \E s \in LayoutReadyRuns : Step(s)
ToggleFloating == \E s \in ToggleRuns : Step(s)
ClickHide == \E s \in HideRuns : Step(s)
ClickClose == \E s \in CloseRuns : Step(s)
OpenInSidebar == \E s \in OpenInSidebarRuns : Step(s)
SetViewStateDone == \E s \in SetViewStateRuns : Step(s)
UndockToFloating == \E s \in UndockRuns : Step(s)
CloseLeaf == \E s \in CloseLeafRuns : Step(s)
Unload == \E s \in UnloadRuns : Step(s)
SetAutoLaunch == \E s \in SetAutoLaunchRuns : Step(s)
ResizeNotify == \E o \in Owners : \E s \in ResizeRuns(o) : Step(s)
Clear == \E o \in Owners : \E s \in ClearRuns(o) : Step(s)
Frame == \E s \in FrameRuns : Step(s)
ProcessOutput == \E p \in 1..Len(procs) : \E c \in Chunks : \E s \in OutputRuns(p, c) : Step(s)
TerminalInput == \E t \in 1..Len(terms) : \E c \in Chunks : \E s \in InputRuns(t, c) : Step(s)

\* a pending timer fires; the clock is left out, so it may fire at any moment
FireTimer == \E tm \in timers : \E s \in TimerRuns(tm) : Step(s)

\* under the clock a timer fires once its delay has passed, and a due timer
\* fires before the clock moves on
FireDueTimer == \E tm \in timers : tm.remaining = 0 /\ \E s \in TimerRuns(tm) : Step(s)

Tick ==
  /\ \A tm \in timers : tm.remaining > 0
  /\ \/ timers # {}
     \/ \E p \in 1..Len(procs) : ~procs[p].killed /\ procs[p].age < AutoLaunchMs
  /\ Step(TickRun)

UserAndHost ==
  \/ LayoutReady \/ ToggleFloating \/ ClickHide \/ ClickClose
  \/ SetViewStateDone \/ UndockToFloating \/ CloseLeaf
  \/ Unload \/ SetAutoLaunch
  \/ ResizeNotify \/ Frame

\* data events and Clear: they call the process or the surface and leave the
\* program state as it is
DataEvents == ProcessOutput \/ TerminalInput \/ Clear

Next == UserAndHost \/ DataEvents \/ OpenInSidebar \/ FireTimer

\* under the clock the sidebar is opened MaxTimedViews times at most; the data
\* events, which change no state, are left to Spec
OpenInSidebarTimed ==
  NumViews(Cur) + Len(pendingOpen) < MaxTimedViews /\ OpenInSidebar

NextTimed == UserAndHost \/ OpenInSidebarTimed \/ FireDueTimer \/ Tick

\* the program with timers that may fire at any moment
Spec == Init /\ [][Next]_vars

\* the Settings Store and the floating geometry, from plugin construction: the
\* settings are loaded, changed in the settings tab and by dragging the resize
\* handle of the floating surface
InitSettings ==
  /\ floatingContainer = FALSE
  /\ isFloatingVisible = FALSE
  /\ floatingTerminal = Null
  /\ floatingFitAddon = Null
  /\ floatingPtyProcess = Null
  /\ floatingResizeObserver = Null
  /\ floatingFitDebounceTimer = Null
  /\ settings = DEFAULT_SETTINGS
  /\ defaults = DEFAULT_SETTINGS
  /\ loaded = FALSE
  /\ persisted \in PersistedRecords
  /\ drag = NoDrag
  /\ size = <<0, 0>>
  /\ win \in WindowSizes
  /\ pos = StyleOffsets
  /\ move = NoMove
  /\ views = [v \in ViewIds |-> FreshView]
  /\ leaves = [l \in LeafIds |-> Null]
  /\ pendingOpen = <<>>
  /\ terms = <<>>
  /\ procs = <<>>
  /\ timers = {}
  /\ rafs = <<>>
  /\ unloaded = FALSE

LoadSettings == \E s \in LoadSettingsRuns : Step(s)
ChangeShellPath == \E s \in ShellPathRuns : Step(s)
ChangeFontSize == \E s \in FontSizeRuns : Step(s)
ResizeMouseDown == \E s \in MouseDownRuns : Step(s)
ResizeMouseMove == \E s \in MouseMoveRuns : Step(s)
ResizeMouseUp == \E s \in MouseUpRuns : Step(s)

\* what onload registers and creates comes after its await of loadSettings
AfterLoad == loaded /\ (LayoutReady \/ ToggleFloating \/ SetAutoLaunch)

NextSettings ==
  \/ LoadSettings \/ AfterLoad
  \/ ChangeShellPath \/ ChangeFontSize
  \/ ResizeMouseDown \/ ResizeMouseMove \/ ResizeMouseUp

SpecSettings == InitSettings /\ [][NextSettings]_vars

DragMouseDown == \E s \in DragDownRuns : Step(s)
DragMouseMove == \E s \in DragMoveRuns : Step(s)
DragMouseUp == \E s \in DragUpRuns : Step(s)

NextGeometry ==
  \/ LayoutReady \/ ToggleFloating
  \/ SetAutoLaunch \/ ChangeShellPath \/ ChangeFontSize
  \/ ResizeMouseDown \/ ResizeMouseMove \/ ResizeMouseUp
  \/ DragMouseDown \/ DragMouseMove \/ DragMouseUp

\* the floating surface moved and resized with the mouse, and the settings tab,
\* once the settings are loaded
SpecGeometry == Init /\ [][NextGeometry]_vars

\* the program under the clock
SpecTimed == Init /\ [][NextTimed]_vars

----------------------------------------------------------------------------
(* Properties *)

DockedOpen == \E l \in LeafIds : leaves[l] # Null
FloatingLive == floatingTerminal # Null \/ floatingPtyProcess # Null
ViewLive(v) == views[v].terminal # Null \/ views[v].ptyProcess # Null

\* every run of every handler the current state allows
AllRuns ==
  LayoutReadyRuns \cup ToggleRuns \cup HideRuns \cup CloseRuns \cup OpenInSidebarRuns
    \cup SetViewStateRuns \cup UndockRuns \cup CloseLeafRuns \cup UnloadRuns
    \cup SetAutoLaunchRuns \cup FrameRuns
    \cup UNION {ResizeRuns(o) : o \in Owners}
    \cup UNION {TimerRuns(tm) : tm \in timers}
    \cup UNION {OutputRuns(p, c) : p \in 1..Len(procs), c \in Chunks}
    \cup UNION {InputRuns(t, c) : t \in 1..Len(terms), c \in Chunks}
    \cup UNION {ClearRuns(o) : o \in Owners}

\* C1: the floating surface is never visible while a docked surface is open.
C1_MutualExclusion == ~(isFloatingVisible /\ DockedOpen)

\* C2: the floating Session and a docked Session never both hold a surface or
\* process handle.
C2_NeverBothLive == ~(FloatingLive /\ \E v \in ViewIds : ViewLive(v))

\* C3: hideFloating (the minimize button, or the toggle while visible) changes
\* nothing but the visibility flag, and a showFloating that finds a Session reuses
\* it: same surface and process handle, no process spawned or killed, no surface
\* constructed, no activation requested.
C3_HidePreservesSession ==
  /\ [][(ClickHide \/ (isFloatingVisible /\ ToggleFloating)) =>
          UNCHANGED <<floatingContainer, floatingTerminal, floatingFitAddon,
                      floatingPtyProcess, floatingResizeObserver,
                      floatingFitDebounceTimer, settings, views, leaves,
                      pendingOpen, terms, procs, timers, rafs, unloaded>>]_vars
  /\ [][(~isFloatingVisible /\ floatingTerminal # Null /\ ToggleFloating) =>
          /\ UNCHANGED <<floatingTerminal, floatingFitAddon, floatingPtyProcess,
                         floatingResizeObserver, rafs, timers>>
          /\ Len(procs') = Len(procs) /\ Len(terms') = Len(terms)
          /\ \A p \in 1..Len(procs) : procs'[p].killed = procs[p].killed]_vars

\* a hidden floating surface whose Session holds a running process
C3_Witness ==
  /\ ~isFloatingVisible /\ floatingTerminal # Null /\ floatingPtyProcess # Null
  /\ ~procs[floatingPtyProcess].killed

\* C4: the close button hides the floating surface and destroys its Session (process
\* killed, surface disposed, both handles null); the show that follows constructs a
\* new surface and requests its activation, and the process handle the Session
\* holds is never that of a killed process.
C4_CloseDestroysAndShowRenews ==
  /\ [][ClickClose =>
          /\ ~isFloatingVisible' /\ floatingTerminal' = Null /\ floatingPtyProcess' = Null
          /\ floatingPtyProcess # Null => procs'[floatingPtyProcess].killed
          /\ floatingTerminal # Null => terms'[floatingTerminal].disposed]_vars
  /\ [][(~isFloatingVisible /\ floatingTerminal = Null /\ floatingContainer
           /\ ToggleFloating) =>
          /\ isFloatingVisible' /\ floatingTerminal' = Len(terms) + 1
          /\ Len(terms') = Len(terms) + 1 /\ ~terms'[floatingTerminal'].disposed
          /\ Len(rafs') = Len(rafs) + 1 /\ rafs'[Len(rafs')].term = floatingTerminal']_vars
  /\ [](floatingPtyProcess # Null => ~procs[floatingPtyProcess].killed)

\* after a close, the floating Session holds a new surface and a new process
C4_Witness ==
  /\ floatingPtyProcess # Null /\ floatingTerminal # Null
  /\ \E p \in 1..Len(procs) :
       /\ procs[p].owner = Floating /\ procs[p].killed /\ p # floatingPtyProcess
       /\ terms[procs[p].term].disposed /\ procs[p].term # floatingTerminal

\* C5: each Session's process handle is non-null only if its surface handle is,
\* between handlers and after every assignment a handler makes to either handle.
C5_ProcessOnlyWithSurface ==
  /\ \A o \in Owners : PtyOf(Cur, o) # Null => TermOf(Cur, o) # Null
  /\ \A s \in AllRuns : \A i \in 1..Len(s.trail) :
       s.trail[i][3] # Null => s.trail[i][2] # Null

\* a Session holding both handles that Destroy takes down in two assignments
C5_Witness ==
  /\ floatingPtyProcess # Null /\ floatingTerminal # Null
  /\ \E s \in CloseRuns : Len(s.trail) = 2

SessionOf(s, o) == <<TermOf(s, o), FitOf(s, o), PtyOf(s, o), ObserverOf(s, o), TimerOf(s, o)>>
FreshSession == <<Null, Null, Null, Null, Null>>
DebouncePending(ts, o) == {tm \in ts : tm.kind = "debounce" /\ tm.owner = o}
PendingActivation(t) == \E i \in 1..Len(rafs) : rafs[i].term = t
Count(cs, name) == Cardinality({i \in 1..Len(cs) : cs[i][1] = name})

\* C6: Destroy leaves the Session as a fresh one (surface, fit, process, observer
\* and timer handles null) whenever it runs, and on a Session without handles it
\* kills and disposes nothing.
C6_DestroyIdempotent ==
  /\ [][(ClickClose \/ Unload) => SessionOf(Cur, Floating)' = FreshSession]_vars
  /\ [][((ClickClose \/ Unload) /\ ~FloatingLive) =>
          \A p \in 1..Len(procs) : procs'[p].killed = procs[p].killed]_vars
  /\ [][\A v \in ViewIds :
          (views[v].status = "open" /\ views'[v].status = "closed") =>
            SessionOf(Cur, v)' = FreshSession]_vars

\* C7: once a Session is destroyed, no callback scheduled before the destroy makes
\* its surface or process handle non-null again or spawns a process.
C7_NoResurrection ==
  /\ [][\A v \in ViewIds :
          views[v].status = "closed" =>
            views'[v].terminal = Null /\ views'[v].ptyProcess = Null]_vars
  /\ [][((Frame \/ FireTimer) /\ floatingTerminal = Null) =>
          floatingTerminal' = Null /\ floatingPtyProcess' = Null]_vars
  /\ [][(Frame /\ \A i \in 1..Len(rafs) :
                    rafs[i].stage = 2 => terms[rafs[i].term].disposed) =>
          Len(procs') = Len(procs)]_vars

\* C8: a Session destroyed before its deferred activation has run holds no process
\* handle and leaves no debounce timer pending, and no process is ever spawned on
\* its surface.
C8_DestroyBeforeActivate ==
  /\ [][(ClickClose /\ floatingTerminal # Null /\ PendingActivation(floatingTerminal)) =>
          floatingPtyProcess' = Null /\ DebouncePending(timers, Floating)' = {}]_vars
  /\ [][\A v \in ViewIds :
          (/\ views[v].status = "open" /\ views'[v].status = "closed"
           /\ views[v].terminal # Null /\ PendingActivation(views[v].terminal)) =>
            views'[v].ptyProcess = Null /\ DebouncePending(timers, v)' = {}]_vars
  /\ [][\A p \in (Len(procs) + 1)..Len(procs') : ~terms'[procs'[p].term].disposed]_vars

\* C9: with auto-launch, a process receives the launch command at most once, and
\* not before it has run for 300 ms.
C9_LaunchOnceAfterDelay ==
  [][\A p \in 1..Len(procs) :
       procs'[p].launches > procs[p].launches =>
         procs[p].launches = 0 /\ procs[p].age >= AutoLaunchMs]_vars

\* C10 as stated: the run of the debounced callback that ends a burst of resize
\* notifications performs exactly one fit and exactly one process resize.
C10_OneFitOneResize ==
  \A tm \in timers :
    (tm.kind = "debounce" /\ tm.remaining = 0) =>
      \A s \in TimerRuns(tm) :
        Count(s.calls, "fit") = 1 /\ Count(s.calls, "pty.resize") = 1

\* C10 as amended: each notification cancels the pending debounce timer of its
\* Session and starts the 50 ms delay anew, so at most one is ever pending and a
\* burst ends in one run of the callback; that run performs exactly one fit if the
\* Session holds fit, surface and process handles and none otherwise, and resizes
\* the process only if the fit changes the grid.
C10_BurstCollapses ==
  /\ [](\A o \in Owners : Cardinality(DebouncePending(timers, o)) <= 1)
  /\ [][\A o \in Owners : \A tm \in DebouncePending(timers, o)' :
          tm.remaining = DebounceMs \/ ~(\E s \in ResizeRuns(o) : Step(s))]_vars
  /\ [](\A tm \in timers :
          tm.kind = "debounce" =>
            \A s \in TimerRuns(tm) :
              LET o == tm.owner
                  live == FitOf(Cur, o) # Null /\ TermOf(Cur, o) # Null /\ PtyOf(Cur, o) # Null
              IN /\ Count(s.calls, "fit") = IF live THEN 1 ELSE 0
                 /\ Count(s.calls, "scrollToBottom") = IF live THEN 1 ELSE 0
                 /\ Count(s.calls, "pty.resize") > 0 =>
                      live /\ s.terms[TermOf(Cur, o)].grid # terms[TermOf(Cur, o)].grid)

\* a due debounce timer whose callback fits once and resizes the process once
C10_Witness ==
  \E tm \in timers :
    /\ tm.kind = "debounce" /\ tm.remaining = 0
    /\ \E s \in TimerRuns(tm) :
         Count(s.calls, "fit") = 1 /\ Count(s.calls, "pty.resize") = 1

\* C11: while a Session holds a live process, every chunk that process emits is
\* written once, unaltered, to the Session's surface and nothing else is; no other
\* live process writes to that surface; and every chunk the surface emits is
\* written once, unaltered, to the Session's process and nothing else is.
C11_BridgeLossless ==
  \A o \in Owners :
    LET p == PtyOf(Cur, o)
        t == TermOf(Cur, o)
    IN (p # Null /\ t # Null /\ ~procs[p].killed) =>
         /\ \A c \in Chunks : \A s \in OutputRuns(p, c) :
              s.calls = << <<"term.write", t, c>> >>
         /\ \A c \in Chunks : \A s \in InputRuns(t, c) :
              s.calls = << <<"pty.write", p, c>> >>
         /\ \A q \in 1..Len(procs) : \A c \in Chunks : \A s \in OutputRuns(q, c) :
              q # p => \A i \in 1..Len(s.calls) : s.calls[i][2] # t

\* the run s met a failed spawn for the Session of owner o
SpawnFailed(s, o) == \E i \in 1..Len(s.calls) : s.calls[i] = <<"spawn failed", o, "">>

\* C12: a failed spawn is caught (the activation goes on to focus the surface) and
\* leaves the Session with a surface handle, no process handle, no data or resize
\* bridge on the surface and no auto-launch timer set by the attempt.
C12_FailedSpawnLeavesSurfaceOnly ==
  \A s \in FrameRuns : \A o \in Owners :
    SpawnFailed(s, o) =>
      /\ TermOf(s, o) # Null /\ PtyOf(s, o) = Null
      /\ s.terms[TermOf(s, o)].bridges = 0
      /\ \A tm \in s.timers \ timers : ~(tm.kind = "launch" /\ tm.owner = o)
      /\ \E i \in 1..Len(s.calls) : \E j \in (i + 1)..Len(s.calls) :
           s.calls[i] = <<"spawn failed", o, "">> /\ s.calls[j][1] = "focus"

\* C13: on a failed spawn, in either Session kind, the surface is written the red
\* error line and then the raw error message.
C13_ErrorLineThenRawError ==
  \A s \in FrameRuns : \A o \in Owners :
    SpawnFailed(s, o) =>
      \E i \in 1..(Len(s.calls) - 2) :
        /\ s.calls[i] = <<"spawn failed", o, "">>
        /\ s.calls[i + 1] = <<"term.write", TermOf(s, o), "error line">>
        /\ s.calls[i + 2] = <<"term.write", TermOf(s, o), "raw error">>

\* the spawn attempts, thrown or not, that the run s made for the Session of owner o
Attempts(s, o) ==
  Cardinality({i \in 1..Len(s.calls) :
                 \/ s.calls[i] = <<"spawn failed", o, "">>
                 \/ s.calls[i][1] = "spawn" /\ s.procs[s.calls[i][2]].owner = o})

\* the runs that no user action starts: animation frames, timers, resize
\* notifications and data events
AutomaticRuns ==
  FrameRuns \cup UNION {TimerRuns(tm) : tm \in timers}
    \cup UNION {ResizeRuns(o) : o \in Owners}
    \cup UNION {OutputRuns(p, c) : p \in 1..Len(procs), c \in Chunks}
    \cup UNION {InputRuns(t, c) : t \in 1..Len(terms), c \in Chunks}

\* C14: once a spawn has failed for a Session, nothing but a user action makes
\* another spawn attempt for that Session.
C14_NoAutomaticRetry ==
  \A o \in Owners :
    (TermOf(Cur, o) # Null /\ terms[TermOf(Cur, o)].failed) =>
      \A s \in AutomaticRuns : Attempts(s, o) = 0

\* the floating Session has met a failed spawn and holds no process
FloatingFailed ==
  floatingTerminal # Null /\ terms[floatingTerminal].failed /\ floatingPtyProcess = Null

\* a floating Session that met a failed spawn has been closed
FailedAndClosed ==
  \E t \in 1..Len(terms) : terms[t].owner = Floating /\ terms[t].failed /\ terms[t].disposed

\* the activation of the floating Session's surface makes a spawn attempt
ActivationAttempts ==
  \A s \in FrameRuns :
    (/\ floatingTerminal # Null /\ floatingFitAddon # Null
     /\ \E i \in 1..Len(rafs) : rafs[i] = [owner |-> Floating, stage |-> 2,
                                             term |-> floatingTerminal]) =>
      Attempts(s, Floating) >= 1

\* the reopen after a close constructs a new surface and requests its activation
ReopenAfterCloseActivates ==
  (~isFloatingVisible /\ floatingTerminal = Null /\ FailedAndClosed /\ ToggleFloating) =>
    /\ floatingTerminal' = Len(terms) + 1 /\ Len(terms') = Len(terms) + 1
    /\ rafs' = Append(rafs, [owner |-> Floating, stage |-> 1, term |-> floatingTerminal'])

\* C15 as stated: after a failed spawn in the floating Session, hide followed by
\* reopen and close followed by reopen each cause a new spawn attempt (the reopen
\* requests an activation of the Session's surface, and the activation attempts).
C15_HideOrCloseThenReopenRespawns ==
  /\ [][(~isFloatingVisible /\ FloatingFailed /\ ToggleFloating) =>
          \E i \in (Len(rafs) + 1)..Len(rafs') : rafs'[i].term = floatingTerminal']_vars
  /\ [][ReopenAfterCloseActivates]_vars
  /\ []ActivationAttempts

\* C15 as amended: after a failed spawn in the floating Session only close followed
\* by reopen causes a new spawn attempt; hide followed by reopen shows the Session
\* as it is: same surface, no process, no activation requested, nothing spawned.
C15_OnlyCloseThenReopenRespawns ==
  /\ [][(~isFloatingVisible /\ FloatingFailed /\ ToggleFloating) =>
          /\ isFloatingVisible'
          /\ UNCHANGED <<floatingTerminal, floatingFitAddon, floatingPtyProcess, rafs,
                         timers, procs>>
          /\ Len(terms') = Len(terms)]_vars
  /\ [][ReopenAfterCloseActivates]_vars
  /\ []ActivationAttempts

\* a failed floating Session was closed, the Session reopened after it has met a
\* failed spawn of its own and is hidden
C15_Witness == ~isFloatingVisible /\ FloatingFailed /\ FailedAndClosed

\* C16: openInSidebar invoked while the floating surface is visible hides it and
\* destroys the floating Session (process killed, surface disposed, handles null)
\* before it asks the host to place the docked surface, and constructs nothing
\* docked itself: the docked Session comes after the kill.
C16_DestroyBeforeDock ==
  /\ [][(isFloatingVisible /\ OpenInSidebar) =>
          /\ ~isFloatingVisible'
          /\ floatingTerminal' = Null /\ floatingFitAddon' = Null
          /\ floatingPtyProcess' = Null /\ floatingResizeObserver' = Null
          /\ floatingPtyProcess # Null => procs'[floatingPtyProcess].killed
          /\ floatingTerminal # Null => terms'[floatingTerminal].disposed
          /\ UNCHANGED <<views, leaves>> /\ Len(terms') = Len(terms)]_vars
  /\ [](isFloatingVisible =>
          \A s \in OpenInSidebarRuns : \A i \in 1..Len(s.calls) :
            s.calls[i][1] = "setViewState" =>
              /\ \E j \in 1..(i - 1) : s.calls[j][1] = "hide"
              /\ floatingPtyProcess # Null =>
                   \E j \in 1..(i - 1) : s.calls[j] = <<"kill", floatingPtyProcess, "">>
              /\ floatingTerminal # Null =>
                   \E j \in 1..(i - 1) : s.calls[j] = <<"dispose", floatingTerminal, "">>
              /\ \A j \in (i + 1)..Len(s.calls) : s.calls[j][1] \notin {"hide", "kill", "dispose"})

\* the floating surface is visible with a running process and openInSidebar, with
\* a right leaf to open, kills the process and then asks the host
C16_Witness ==
  /\ isFloatingVisible /\ floatingPtyProcess # Null
  /\ \E s \in OpenInSidebarRuns :
       Count(s.calls, "kill") = 1 /\ Count(s.calls, "setViewState") = 1

\* C17: undockToFloating destroys every docked Session (process killed, handles
\* null) and then shows the floating surface: after it the floating surface is
\* visible with a constructed Session, no docked Session holds a surface or process
\* handle, and within the handler every kill and dispose comes before the show.
C17_UndockDestroysThenShows ==
  /\ [][UndockToFloating =>
          /\ \A l \in LeafIds : leaves'[l] = Null
          /\ \A v \in ViewIds :
               /\ views'[v].terminal = Null /\ views'[v].ptyProcess = Null
               /\ views[v].ptyProcess # Null => procs'[views[v].ptyProcess].killed
          /\ isFloatingVisible' /\ floatingTerminal' # Null]_vars
  /\ [](\A s \in UndockRuns : \A i, j \in 1..Len(s.calls) :
          (/\ s.calls[i][1] \in {"kill", "dispose"}
           /\ s.calls[j][1] \in {"new Terminal", "fit", "scrollToBottom", "focus"}) => i < j)

\* C18: once the unload hook has run and no callback is pending any more, no
\* Session, floating or docked, holds a surface or process handle and every
\* process that was spawned has been killed.
C18_UnloadDestroysAll ==
  (unloaded /\ timers = {} /\ rafs = <<>>) =>
    /\ ~FloatingLive
    /\ \A v \in ViewIds : ~ViewLive(v)
    /\ \A p \in 1..Len(procs) : procs[p].killed

\* C19 as stated: every mouse move of a floating resize, in every window, leaves
\* the floating width in [300, 0.8 * window width] and the height in
\* [200, 0.8 * window height].
C19_SizeWithinBounds ==
  \A s \in MouseMoveRuns :
    /\ MinWidth <= s.size[1] /\ s.size[1] <= FourFifths(win[1])
    /\ MinHeight <= s.size[2] /\ s.size[2] <= FourFifths(win[2])
    /\ s.settings.floatingWidth = s.size[1] /\ s.settings.floatingHeight = s.size[2]

\* C19 as amended: the width never exceeds 0.8 * window width; it is at least 300
\* when 0.8 * window width is, and 0.8 * window width otherwise; likewise the
\* height with 200 and the window height; the settings take the same values.
C19_SizeClamped ==
  \A s \in MouseMoveRuns :
    /\ s.size[1] <= FourFifths(win[1])
    /\ s.size[1] >= Min(MinWidth, FourFifths(win[1]))
    /\ s.size[2] <= FourFifths(win[2])
    /\ s.size[2] >= Min(MinHeight, FourFifths(win[2]))
    /\ s.settings.floatingWidth = s.size[1] /\ s.settings.floatingHeight = s.size[2]

\* a drag in a window so small that both upper bounds lie below the minimums
C19_Witness ==
  /\ drag.on /\ size = <<FourFifths(win[1]), FourFifths(win[2])>>
  /\ size[1] < MinWidth /\ size[2] < MinHeight
  /\ settings.floatingWidth = size[1]

\* C20: loadSettings yields, for every settings key, the persisted value when the
\* persisted record has the key and the default otherwise, and neither loading nor
\* anything after it changes the DEFAULT_SETTINGS object.
C20_LoadMergesOverDefaults ==
  /\ [][LoadSettings =>
          /\ \A k \in SettingsKeys :
               settings'[k] = IF k \in DOMAIN persisted THEN persisted[k] ELSE defaults[k]
          /\ defaults' = defaults]_vars
  /\ [](defaults = DEFAULT_SETTINGS)

\* settings loaded from a record that holds the font size but not the shell path
C20_Witness ==
  /\ loaded /\ DOMAIN persisted = {"fontSize"}
  /\ settings.fontSize = PersistedValue.fontSize
  /\ settings.shellPath = DEFAULT_SETTINGS.shellPath
  /\ settings.floatingWidth = DEFAULT_SETTINGS.floatingWidth

\* the runs of two consecutive toggles: the second finds what the first left
TwoToggleRuns ==
  {toggleFloatingTerminal([s EXCEPT !.box = bx]) :
     s \in {r \in ToggleRuns : Len(r.terms) <= MaxTerms}, bx \in BoxesFor({Floating})}

\* the run s killed no process and disposed no surface
NothingDestroyed(s) ==
  /\ Count(s.calls, "kill") = 0 /\ Count(s.calls, "dispose") = 0
  /\ \A p \in 1..Len(procs) : s.procs[p].killed = procs[p].killed
  /\ \A t \in 1..Len(terms) : s.terms[t].disposed = terms[t].disposed

\* a toggle of the visible surface hides it and keeps its Session; two consecutive
\* toggles leave the visibility as it was; no toggle kills a process
ToggleHidesAndReturns ==
  /\ \A s \in ToggleRuns :
       /\ NothingDestroyed(s)
       /\ isFloatingVisible =>
            ~s.isFloatingVisible /\ SessionOf(s, Floating) = SessionOf(Cur, Floating)
  /\ \A s \in TwoToggleRuns : s.isFloatingVisible = isFloatingVisible /\ NothingDestroyed(s)

\* C21 as stated: the toggle shows the floating surface whenever it is not visible
\* and hides it, keeping its Session, whenever it is visible; two consecutive
\* toggles leave the visibility as it was and no toggle kills a process.
C21_ToggleShowsOrHides ==
  /\ \A s \in ToggleRuns : ~isFloatingVisible => s.isFloatingVisible
  /\ ToggleHidesAndReturns

\* C21 as amended: the toggle shows the floating surface when it is not visible
\* and the floating container exists, and does nothing while there is no container
\* (before the layout is ready); the rest as stated.
C21_ToggleShowsOnceContainerExists ==
  /\ \A s \in ToggleRuns :
       ~isFloatingVisible =>
         IF floatingContainer THEN s.isFloatingVisible
         ELSE s = At(s.box, TRUE)
  /\ ~floatingContainer => ~isFloatingVisible
  /\ ToggleHidesAndReturns

\* the visible floating Session runs a process that two toggles, a hide and a
\* show, leave running in the same Session
C21_Witness ==
  /\ isFloatingVisible /\ floatingPtyProcess # Null /\ ~procs[floatingPtyProcess].killed
  /\ \E s \in TwoToggleRuns :
       /\ s.isFloatingVisible /\ s.floatingPtyProcess = floatingPtyProcess
       /\ Count(s.calls, "hide") = 1 /\ Count(s.calls, "focus") = 1

\* C22: a fit caused by a change of the container's dimensions is made by the
\* debounced callback only: neither a mouse move of the floating resize, which
\* sets the container's width and height, nor a ResizeObserver notification fits.
C22_FitsAreDebounced ==
  /\ \A s \in MouseMoveRuns : Count(s.calls, "fit") = 0
  /\ \A o \in Owners : \A s \in ResizeRuns(o) : Count(s.calls, "fit") = 0

\* the process and the surface of the Session of owner o have the same grid in s
SameGrid(s, o) == s.procs[PtyOf(s, o)].grid = s.terms[TermOf(s, o)].grid

\* the runs of the handlers that fit a surface: show, the deferred activation
\* and the debounced callback
FittingRuns ==
  ToggleRuns \cup UndockRuns \cup FrameRuns \cup UNION {TimerRuns(tm) : tm \in timers}

Before(s, c, d) ==
  \E i \in 1..Len(s.calls) : \E j \in (i + 1)..Len(s.calls) : s.calls[i] = c /\ s.calls[j] = d

\* C24: every process is spawned on a surface constructed by an earlier handler,
\* the one its Session holds, after the activation's fit of that surface and with
\* the grid that fit left, whether or not it is the initial 80x24.
C24_SurfaceBeforeProcess ==
  \A s \in FrameRuns : \A p \in (Len(procs) + 1)..Len(s.procs) :
    LET t == s.procs[p].term
        o == s.procs[p].owner
    IN /\ t <= Len(terms) /\ ~terms[t].disposed /\ t = TermOf(Cur, o)
       /\ Before(s, <<"fit", t, "">>, <<"spawn", p, "">>)
       /\ ~Before(s, <<"spawn", p, "">>, <<"pty.resize", p, "">>)
       /\ s.procs[p].grid = s.box[o] /\ s.procs[p].grid = s.terms[t].grid

\* an activation is pending whose fit changes the grid of the surface from the
\* initial 80x24 and whose process is spawned with the new grid
C24_Witness ==
  \E s \in FrameRuns : \E p \in (Len(procs) + 1)..Len(s.procs) :
    /\ terms[s.procs[p].term].grid = InitialGrid
    /\ s.procs[p].grid # InitialGrid
    /\ s.procs[p].owner # Floating

\* the animation-frame boundaries passed since surface t was constructed, as far
\* as its pending activation tells: none while the outer callback is requested,
\* one while the inner callback is, two or more afterwards
FramesPassed(t) ==
  IF \E i \in 1..Len(rafs) : rafs[i].term = t /\ rafs[i].stage = 1 THEN 0
  ELSE IF \E i \in 1..Len(rafs) : rafs[i].term = t /\ rafs[i].stage = 2 THEN 1
  ELSE 2

\* the surfaces that the run s fits or spawns a process on
FittedOrSpawnedOn(s) ==
  {s.calls[i][2] : i \in {j \in 1..Len(s.calls) : s.calls[j][1] = "fit"}}
    \cup {s.procs[p].term : p \in (Len(procs) + 1)..Len(s.procs)}

\* C25: no surface is fitted, and no process is spawned on it, before two
\* animation-frame boundaries have passed since the surface was constructed.
C25_TwoFramesBeforeFitAndSpawn ==
  /\ \A s \in FrameRuns : \A t \in FittedOrSpawnedOn(s) :
       t <= Len(terms) /\ FramesPassed(t) + 1 >= 2
  /\ \A s \in ToggleRuns \cup UndockRuns \cup UNION {TimerRuns(tm) : tm \in timers} :
       \A t \in FittedOrSpawnedOn(s) : t <= Len(terms) /\ FramesPassed(t) >= 2

\* C26: Clear writes the shell clear command, and nothing else, to the process
\* the Session holds, a process that has not been killed; when the Session holds
\* no process Clear calls nothing, the surface included, and changes no state.
C26_ClearWritesToProcess ==
  \A o \in Owners : \A s \in ClearRuns(o) :
    /\ [s EXCEPT !.calls = <<>>] = Cur
    /\ s.calls = IF PtyOf(Cur, o) = Null THEN <<>>
                 ELSE << <<"pty.write", PtyOf(Cur, o), ClearCommand>> >>
    /\ PtyOf(Cur, o) # Null => ~procs[PtyOf(Cur, o)].killed

\* Clear is at hand for a floating Session that holds a process and for a docked
\* Session that holds a surface and no process yet
C26_Witness ==
  /\ ClearRuns(Floating) # {} /\ floatingPtyProcess # Null
  /\ \E v \in ViewIds :
       ClearRuns(v) # {} /\ views[v].terminal # Null /\ views[v].ptyProcess = Null

OnProcess == {"pty.write", "pty.resize"}
OnSurface == {"term.write", "fit", "scrollToBottom", "focus"}

\* the run s makes its i-th call on a process killed, or a surface disposed,
\* before the run or earlier in it
OnDestroyed(s, i) ==
  LET c == s.calls[i]
  IN \/ /\ c[1] \in OnProcess
        /\ \/ c[2] <= Len(procs) /\ procs[c[2]].killed
           \/ \E j \in 1..(i - 1) : s.calls[j] = <<"kill", c[2], "">>
     \/ /\ c[1] \in OnSurface
        /\ \/ c[2] <= Len(terms) /\ terms[c[2]].disposed
           \/ \E j \in 1..(i - 1) : s.calls[j] = <<"dispose", c[2], "">>

\* a data event of a killed process, delivered after the kill, runs the listener
DataAfterKillRuns ==
  {ptyDataListener(Cur, p, c) : p \in {q \in 1..Len(procs) : procs[q].killed}, c \in Chunks}

\* C27: no handler, callback or listener writes to or resizes a killed process,
\* or writes to, fits, scrolls or focuses a disposed surface.
C27_NoOperationOnDestroyed ==
  \A s \in AllRuns \cup DataAfterKillRuns : \A i \in 1..Len(s.calls) : ~OnDestroyed(s, i)

\* the debounce timer of a destroyed Session, whose process was killed, is still
\* pending, and its callback calls nothing
C27_Witness ==
  \E tm \in timers :
    /\ tm.kind = "debounce" /\ TermOf(Cur, tm.owner) = Null /\ PtyOf(Cur, tm.owner) = Null
    /\ \E p \in 1..Len(procs) : procs[p].owner = tm.owner /\ procs[p].killed
    /\ \A s \in TimerRuns(tm) : s.calls = <<>>

\* C28: every change in the settings tab and every release of the resize handle
\* writes the settings, the floating size among them, to the store; pressing,
\* dragging and releasing the header changes the container's right and bottom
\* offsets (and the drag's own variables) and nothing else: the settings and the
\* store stay as they are, and the store holds no position.
C28_SizePersistedPositionNot ==
  /\ \A s \in ShellPathRuns \cup FontSizeRuns \cup SetAutoLaunchRuns \cup MouseUpRuns :
       s.persisted = s.settings
  /\ \A s \in MouseUpRuns :
       s.persisted.floatingWidth = size[1] /\ s.persisted.floatingHeight = size[2]
  /\ \A s \in DragDownRuns \cup DragMoveRuns \cup DragUpRuns :
       [s EXCEPT !.pos = pos, !.move = move] = Cur
  /\ DOMAIN persisted = SettingsKeys

\* the floating surface has been resized and moved, both drags are over, and the
\* store holds the new size
C28_Witness ==
  /\ ~drag.on /\ ~move.isDragging /\ pos # StyleOffsets
  /\ size # <<DEFAULT_SETTINGS.floatingWidth, DEFAULT_SETTINGS.floatingHeight>>
  /\ persisted.floatingWidth = size[1] /\ persisted.floatingHeight = size[2]

\* C29: on each surface at most one process is ever spawned and the data and
\* resize bridges are registered at most once.
C29_SpawnOncePerSurface ==
  \A t \in 1..Len(terms) :
    /\ Cardinality({p \in 1..Len(procs) : procs[p].term = t}) <= 1
    /\ terms[t].bridges <= 1

\* C30: the processes spawned and not yet killed are exactly the processes that
\* the Sessions' process handles name.
C30_NoOrphanProcess ==
  {p \in 1..Len(procs) : ~procs[p].killed} = {PtyOf(Cur, o) : o \in Owners} \ {Null}

\* C31: once the container exists and until unload, a floating surface marked
\* visible has a surface handle; before the container exists showFloatingTerminal,
\* hideFloatingTerminal and toggleFloatingTerminal return the state they were given,
\* in which the surface is not visible and the floating Session has no handle.
C31_VisibleHasSurface ==
  /\ (floatingContainer /\ ~unloaded /\ isFloatingVisible) => floatingTerminal # Null
  /\ ~floatingContainer =>
       /\ ~isFloatingVisible
       /\ SessionOf(Cur, Floating) = <<Null, Null, Null, Null, Null>>
       /\ \A bx \in BoxesFor({Floating}) :
            LET s == At(bx, TRUE)
            IN /\ showFloatingTerminal(s) = s
               /\ hideFloatingTerminal(s) = s
               /\ toggleFloatingTerminal(s) = s

\* the floating surface is visible with a surface handle after an earlier floating
\* surface was disposed
C31_Witness ==
  /\ floatingContainer /\ ~unloaded /\ isFloatingVisible /\ floatingTerminal # Null
  /\ \E t \in 1..Len(terms) : terms[t].disposed /\ terms[t].owner = Floating

\* the floating Session's handles, its visibility flag, and its surfaces and processes
FloatingPart(s) ==
  <<SessionOf(s, Floating), s.isFloatingVisible,
    [t \in {u \in 1..Len(terms) : terms[u].owner = Floating} |-> s.terms[t]],
    [p \in {q \in 1..Len(procs) : procs[q].owner = Floating} |-> s.procs[p]]>>

\* C32: openInSidebar invoked while the floating surface is not visible leaves the
\* floating Session's surface, fit, process, observer and timer handles and the
\* visibility flag as they are, kills and disposes nothing, and neither does the
\* completion of the setViewState it awaits.
C32_HiddenFloatingUntouchedByDock ==
  /\ ~isFloatingVisible =>
       \A s \in OpenInSidebarRuns :
         /\ FloatingPart(s) = FloatingPart(Cur)
         /\ \A i \in 1..Len(s.calls) : s.calls[i][1] \notin {"kill", "dispose", "hide"}
  /\ \A s \in SetViewStateRuns : FloatingPart(s) = FloatingPart(Cur)

\* an openInSidebar is suspended at its await while the floating surface is hidden
\* and the floating Session has its surface and a live process
C32_Witness ==
  /\ ~isFloatingVisible /\ pendingOpen # <<>>
  /\ floatingTerminal # Null /\ floatingPtyProcess # Null
  /\ ~procs[floatingPtyProcess].killed /\ ~terms[floatingTerminal].disposed
  /\ OpenInSidebarRuns # {}

\* the debounce timers pending for a Session that lacks a fit, surface or process handle
IdleDebounce ==
  {tm \in timers : /\ tm.kind = "debounce"
                   /\ \/ FitOf(Cur, tm.owner) = Null
                      \/ TermOf(Cur, tm.owner) = Null
                      \/ PtyOf(Cur, tm.owner) = Null}

\* C33: the callback of a debounce timer that fires while its Session lacks a fit
\* handle, a surface handle or a process handle calls nothing (no fit, no scroll, no
\* process resize) and leaves every Session's handles, every surface and every
\* process as they are.
C33_IdleDebounceDoesNothing ==
  \A tm \in IdleDebounce : \A s \in TimerRuns(tm) :
    /\ s.calls = <<>>
    /\ \A o \in Owners : SessionOf(s, o) = SessionOf(Cur, o)
    /\ s.terms = terms /\ s.procs = procs /\ s.rafs = rafs
    /\ s.timers = timers \ {tm}

\* two debounce timers are pending: one for a Session whose spawn failed (surface
\* without process), one for a destroyed Session (no handle at all)
C33_Witness ==
  /\ \E tm \in IdleDebounce :
       /\ TermOf(Cur, tm.owner) # Null /\ PtyOf(Cur, tm.owner) = Null
       /\ terms[TermOf(Cur, tm.owner)].failed
  /\ \E tm \in IdleDebounce :
       /\ TermOf(Cur, tm.owner) = Null /\ FitOf(Cur, tm.owner) = Null
       /\ \E t \in 1..Len(terms) : terms[t].owner = tm.owner /\ terms[t].disposed

\* C34: whatever a process emits, while it lives or after it was killed, its data
\* listener writes to no surface other than the one the process was spawned for.
C34_OutputOnlyToOwnSurface ==
  \A p \in 1..Len(procs) : \A c \in Chunks :
    \A s \in OutputRuns(p, c) \cup {r \in DataAfterKillRuns : r = ptyDataListener(Cur, p, c)} :
      \A i \in 1..Len(s.calls) :
        s.calls[i][1] = "term.write" => s.calls[i][2] = procs[p].term

====
